---- MODULE Spec2Model ----
(***************************************************************************)
(* Model of the identification task orchestrator of ig-song-finder:        *)
(* FindSongView.post (dedup cache lookup, task creation), the Celery task  *)
(* identify_song_task (extraction, recognition, upsert, cleanup, error     *)
(* classification, retry) and TaskStatusView.get (polling).                *)
(*                                                                         *)
(* Text is modelled as sequences of one-character strings so that the      *)
(* "CODE: message" parsing of tasks.py is computed, not assumed.  The      *)
(* human-readable bodies of the messages are shortened; the code prefixes  *)
(* are the ones of the source.                                             *)
(***************************************************************************)
EXTENDS Integers, Sequences, FiniteSets, Bags, TLC

\* ------------------------------------------------------------------ bounds
\* Task Records that may be created (task ids are 1..MaxTasks).
MaxTasks == 2
\* A cache-hit submission is accepted while the stored search_count is below
\* MaxCount (3 lets a stale write land after two newer ones).
MaxCount == 3
\* Requests handled concurrently by the web tier.
MaxConcurrent == 2
\* Celery worker processes (runs executing at once).
NumWorkers == 2
\* Task Records that may be created in the specifications other than Spec.
LiveTasks == 1

\* ------------------------------------------------- program constants
\* tasks.py:17  @shared_task(bind=True, max_retries=3, ...)
max_retries == 3
\* instagram.py:17  attempts of the metadata extraction inside one run
MAX_RETRIES == 10

TaskIds == 1..MaxTasks

None == "None"

\* ------------------------------------------------------------------ text
UpperChars ==
    {"A","B","C","D","E","F","G","H","I","J","K","L","M","N","O","P","Q","R","S","T","U","V","W","X","Y","Z"}
LowerChars ==
    {"a","b","c","d","e","f","g","h","i","j","k","l","m","n","o","p","q","r","s","t","u","v","w","x","y","z"}

CodeInvalidUrl ==
    <<"I","N","V","A","L","I","D","_","U","R","L">>
CodeContentNotFound ==
    <<"C","O","N","T","E","N","T","_","N","O","T","_","F","O","U","N","D">>
CodePrivateAccount ==
    <<"P","R","I","V","A","T","E","_","A","C","C","O","U","N","T">>
CodeNoSongFound ==
    <<"N","O","_","S","O","N","G","_","F","O","U","N","D">>
CodeProcessingError ==
    <<"P","R","O","C","E","S","S","I","N","G","_","E","R","R","O","R">>
CodeUnknownError ==
    <<"U","N","K","N","O","W","N","_","E","R","R","O","R">>

CodeDownloadError ==
    <<"D","O","W","N","L","O","A","D","_","E","R","R","O","R">>
CodeAuthError ==
    <<"A","U","T","H","_","E","R","R","O","R">>
CodeTaskNotFound ==
    <<"T","A","S","K","_","N","O","T","_","F","O","U","N","D">>
\* views.py:128  'No song was identified in this content.'
MsgNoSongContent ==
    <<"N","o"," ","s","o","n","g"," ","i","n"," ","c","o","n","t","e","n","t">>
\* views.py:133  'An error occurred.'
MsgAnErrorOccurred ==
    <<"A","n"," ","e","r","r","o","r"," ","o","c","c","u","r","r","e","d",".">>
\* instagram.py:40-43  raise Exception("INVALID_URL: This URL type is not supported. ...")
MsgInvalidUrl ==
    <<"I","N","V","A","L","I","D","_","U","R","L",":"," ","u","n","s","u","p","p","o","r","t","e","d">>
\* instagram.py:95
MsgContentNotFound ==
    <<"C","O","N","T","E","N","T","_","N","O","T","_","F","O","U","N","D",":"," ","g","o","n","e">>
\* instagram.py:106
MsgPrivateAccount ==
    <<"P","R","I","V","A","T","E","_","A","C","C","O","U","N","T",":"," ","p","r","i","v","a","t","e">>
\* instagram.py:116 and 151
MsgDownloadError ==
    <<"D","O","W","N","L","O","A","D","_","E","R","R","O","R",":"," ","d","l">>
\* tasks.py:40  raise Exception("Failed to extract audio from Instagram URL")
MsgExtractFailed ==
    <<"F","a","i","l","e","d"," ","t","o"," ","e","x","t","r","a","c","t">>
\* shazam.py:38
MsgAudioNotFound ==
    <<"A","U","D","I","O","_","N","O","T","_","F","O","U","N","D",":"," ","n","o"," ","f","i","l","e">>
\* shazam.py:80
MsgRateLimit ==
    <<"R","A","T","E","_","L","I","M","I","T",":"," ","l","a","t","e","r">>
\* shazam.py:83  (the message itself holds further colons)
MsgAuthError ==
    <<"A","U","T","H","_","E","R","R","O","R",":"," ","4","0","3","."," ","B","o","d","y",":"," ","x">>
\* shazam.py:117
MsgNetworkError ==
    <<"N","E","T","W","O","R","K","_","E","R","R","O","R",":"," ","n","e","t">>
\* tasks.py:29, 143: str() of the TaskStatus.DoesNotExist that objects.get raises
\* ('TaskStatus matching query does not exist.')
MsgDoesNotExist ==
    <<"T","a","s","k","S","t","a","t","u","s"," ","d","o","e","s"," ","n","o","t"," ","e","x","i","s","t",".">>
\* instagram.py:119-127: str() of an exception other than DownloadError that
\* ydl.extract_info raised and the loop re-raises (it has a colon but no code)
MsgUnexpected ==
    <<"E","R","R","O","R",":"," ","b","o","o","m">>
\* tasks.py:51  'No song was identified in this audio.'
MsgNoSong ==
    <<"N","o"," ","s","o","n","g">>

non_retryable_errors_no_content ==
    {CodePrivateAccount, CodeNoSongFound, CodeInvalidUrl}

\* tasks.py:133  non_retryable_errors
non_retryable_errors ==
    {CodePrivateAccount, CodeContentNotFound, CodeNoSongFound, CodeInvalidUrl}

\* ':' in error_str
HasChar(s, c) == \E i \in 1..Len(s) : s[i] = c

\* index of the first c in s (0 when there is none)
FirstIndex(s, c) ==
    IF HasChar(s, c)
    THEN CHOOSE i \in 1..Len(s) : s[i] = c /\ \A j \in 1..(i - 1) : s[j] # c
    ELSE 0

\* str.split(':')[0]
SplitHead(s) ==
    IF HasChar(s, ":") THEN SubSeq(s, 1, FirstIndex(s, ":") - 1) ELSE s

\* str.split(':', 1)[1]
SplitTail(s) == SubSeq(s, FirstIndex(s, ":") + 1, Len(s))

\* str.strip()
RECURSIVE LStrip(_)
LStrip(s) == IF s # <<>> /\ Head(s) = " " THEN LStrip(Tail(s)) ELSE s
RECURSIVE RStrip(_)
RStrip(s) ==
    IF s # <<>> /\ s[Len(s)] = " " THEN RStrip(SubSeq(s, 1, Len(s) - 1)) ELSE s
Strip(s) == RStrip(LStrip(s))

\* str.isupper(): at least one cased character and no lowercase one
IsUpper(s) ==
    /\ \E i \in 1..Len(s) : s[i] \in UpperChars
    /\ \A i \in 1..Len(s) : s[i] \notin LowerChars

ParseError_any_upper(error_str) ==
    LET potential_code == Strip(SplitHead(error_str))
    IN  IF HasChar(error_str, ":") /\ IsUpper(potential_code)
        THEN [error_code |-> potential_code,
              error_message |-> Strip(SplitTail(error_str))]
        ELSE [error_code |-> CodeProcessingError, error_message |-> error_str]

\* tasks.py:128-139: the (error_code, error_message) parsed out of str(e)
ParseError(error_str) ==
    LET potential_code == Strip(SplitHead(error_str))
    IN  IF /\ HasChar(error_str, ":")
           /\ IsUpper(potential_code)
           /\ HasChar(potential_code, "_")
        THEN [error_code |-> potential_code,
              error_message |-> Strip(SplitTail(error_str))]
        ELSE [error_code |-> CodeProcessingError, error_message |-> error_str]

\* tasks.py:152  error_code not in non_retryable_errors
ShouldRetry(error_code) == error_code \notin non_retryable_errors

\* ------------------------------------------------------------------ URLs
\* A URL is the sequence of path segments after "https://www.instagram.com/";
\* a "/" separates consecutive segments.  UrlReel is a reel, UrlAudio passes
\* validate_url but has a shape the extractor refuses, UrlAccounts fails
\* validate_url.
UrlReel == <<"reel", "ABC123">>
UrlAudio == <<"reels", "audio", "777">>
UrlAccounts == <<"accounts", "login">>
Urls == {UrlReel, UrlAudio, UrlAccounts}

Digits == {"777"}

\* serializers.py:13-26  FindSongRequestSerializer.validate_url
ValidateUrl(url) ==
    \/ Len(url) >= 2 /\ url[1] \in {"p", "reel", "reels", "stories"}
    \/ Len(url) >= 3 /\ url[2] \in {"p", "reel"}

\* views.py:36  str(uuid.uuid5(uuid.NAMESPACE_URL, url)): one name per URL
Uuid5(url) ==
    CASE url = UrlReel -> "uuid5(reel/ABC123)"
      [] url = UrlAudio -> "uuid5(reels/audio/777)"
      [] url = UrlAccounts -> "uuid5(accounts/login)"

\* views.py:20-36  extract_media_id
extract_media_id(url) ==
    IF Len(url) >= 2 /\ url[1] \in {"p", "reel", "reels"} THEN url[2]
    ELSE IF Len(url) >= 3 /\ url[1] = "stories" /\ url[3] \in Digits THEN url[3]
    ELSE Uuid5(url)

\* instagram.py:33-43  the unsupported URL shapes: /reels/audio/, /explore/, /accounts/
Unsupported(url) ==
    \/ \E i \in 1..(Len(url) - 2) : url[i] = "reels" /\ url[i + 1] = "audio"
    \/ \E i \in 1..(Len(url) - 1) : url[i] \in {"explore", "accounts"}

MediaIds == {extract_media_id(u) : u \in {v \in Urls : ValidateUrl(v)}}

\* ------------------------------------------------------------------ records
Pending == "pending"
Processing == "processing"
Completed == "completed"
Failed == "failed"

NoTask == [status |-> "absent"]
NoItem == [song_title |-> None]
\* a path of the temp directory holds no file
NoFile == {}

\* shazam.py:96-110  the tracks the recognition API can return
Tracks == {[title |-> "Song X", subtitle |-> "Artist Y"]}

\* instagram.py:50,154  the artifact path is <temp_dir>/<video id>.<ext>;
\* "raw" is the downloaded media before post-processing, "audio" the clip
\* that extract_audio_from_instagram returns.
Paths == [id : MediaIds, kind : {"raw", "audio"}]

NoPath == [id |-> None, kind |-> None]
NoTrack == [title |-> None, subtitle |-> None]
NoArgs == [url |-> <<>>, media_id |-> None]
\* no exception pending, and the empty string of a blank CharField
NoText == <<>>

\* attempt is the loop variable of instagram.py:76 (range(1, MAX_RETRIES + 1))
IdleRun ==
    [pc |-> "idle", retries |-> 0, ts |-> NoTask, audio_path |-> NoPath,
     exc |-> NoText, track |-> NoTrack, attempt |-> 1]


VARIABLES
    items,      \* SongSearch table: ig_media_id -> row
    tasks,      \* TaskStatus table: task_id -> row
    kwargs,     \* arguments of the Celery message of each task (url, media_id)
    queue,      \* Celery broker: messages [task_id, retries] waiting for a worker
    run,        \* the execution of identify_song_task for each task id
    files,      \* temp directory: path -> {id of the task whose run wrote it}
    req,        \* FindSongView.post executions in progress (a bag of their locals)
    runs        \* history: pipeline runs started per task id

vars == <<items, tasks, kwargs, queue, run, files, req, runs>>

Init ==
    /\ items = [m \in MediaIds |-> NoItem]
    /\ tasks = [t \in TaskIds |-> NoTask]
    /\ kwargs = [t \in TaskIds |-> NoArgs]
    /\ queue = {}
    /\ run = [t \in TaskIds |-> IdleRun]
    /\ files = [p \in Paths |-> NoFile]
    /\ req = EmptyBag
    /\ runs = [t \in TaskIds |-> 0]

\* ------------------------------------------------------- FindSongView.post
AfterLookup_no_return(found) == "create"

\* views.py:62-73: where post goes after the cache lookup
AfterLookup(found) == IF found THEN "increment" ELSE "create"

\* views.py:48-63: validation, media id, cache lookup
PostLookup(url) ==
    /\ BagCardinality(req) < MaxConcurrent
    /\ IF ~ValidateUrl(url)
       THEN req' = req
       ELSE LET m == extract_media_id(url)
            IN  /\ items[m] # NoItem => items[m].search_count < MaxCount
                /\ req' = req (+) SetToBag({
                      [pc |-> AfterLookup(items[m] # NoItem), url |-> url,
                       media_id |-> m, cached |-> items[m]]})
    /\ UNCHANGED <<items, tasks, kwargs, queue, run, files, runs>>

\* models.py:45-48: the value increment_search_count saves
IncrementedCount(cached) == cached.search_count + 1

\* views.py:64-70 and models.py:45-48: increment_search_count on the loaded row
PostIncrement(r) ==
    /\ r.pc = "increment"
    /\ items' = [items EXCEPT ![r.media_id].search_count = IncrementedCount(r.cached)]
    /\ req' = req (-) SetToBag({r})
    /\ UNCHANGED <<tasks, kwargs, queue, run, files, runs>>

\* uuid.uuid4(): a task id no Task Record has
FreshTaskId ==
    CHOOSE t \in TaskIds : tasks[t] = NoTask /\ \A u \in 1..(t - 1) : tasks[u] # NoTask

\* views.py:75-97: create the Task Record and queue the Celery task
PostCreate(r) ==
    /\ r.pc = "create"
    /\ \E t \in TaskIds : tasks[t] = NoTask
    /\ LET t == FreshTaskId
       IN  /\ tasks' = [tasks EXCEPT ![t] =
                [status |-> Pending, song_search |-> None,
                 error_code |-> NoText, error_message |-> NoText]]
           /\ kwargs' = [kwargs EXCEPT ![t] = [url |-> r.url, media_id |-> r.media_id]]
           /\ queue' = queue \cup {[task_id |-> t, retries |-> 0]}
    /\ req' = req (-) SetToBag({r})
    /\ UNCHANGED <<items, run, files, runs>>

\* ------------------------------------------------------ identify_song_task
Busy == {t \in TaskIds : run[t].pc # "idle"}

Ack_late(msg) == queue

\* tasks.py:17: shared_task without acks_late: a message is acknowledged, and
\* so gone from the queue, when a worker takes it
Ack(msg) == queue \ {msg}

\* tasks.py:27-33: a worker takes the message and marks the task Processing
Start(t) ==
    /\ run[t].pc = "idle"
    /\ Cardinality(Busy) < NumWorkers
    /\ \E msg \in queue :
        /\ msg.task_id = t
        /\ queue' = Ack(msg)
        /\ IF tasks[t] = NoTask
           THEN /\ tasks' = tasks
                /\ run' = [run EXCEPT ![t] =
                     [IdleRun EXCEPT !.pc = "except", !.retries = msg.retries,
                                     !.exc = MsgDoesNotExist]]
           ELSE LET ts == [tasks[t] EXCEPT !.status = Processing]
                IN  /\ tasks' = [tasks EXCEPT ![t] = ts]
                    /\ run' = [run EXCEPT ![t] =
                         [IdleRun EXCEPT !.pc = "extract", !.retries = msg.retries,
                                         !.ts = ts]]
    /\ runs' = [runs EXCEPT ![t] = @ + 1]
    /\ UNCHANGED <<items, kwargs, files, req>>

\* instagram.py:76-183: what one call of extract_audio_from_instagram can do
\* for a supported URL: return the clip ("ok"), return None ("none"), raise
\* CONTENT_NOT_FOUND, PRIVATE_ACCOUNT or DOWNLOAD_ERROR; a download that fails
\* in post-processing leaves the downloaded media behind ("download_partial").
ExtractOutcomes ==
    {"ok", "none", "not_found", "private", "download_error", "download_partial"}

ExtractMessage(o) ==
    CASE o = "none" -> MsgExtractFailed
      [] o = "not_found" -> MsgContentNotFound
      [] o = "private" -> MsgPrivateAccount
      [] o = "download_error" -> MsgDownloadError
      [] o = "download_partial" -> MsgDownloadError

Raise(t, msg) == [run EXCEPT ![t].exc = msg, ![t].pc = "except"]

\* tasks.py:36-40 with instagram.py:21-183
Extract(t) ==
    /\ run[t].pc = "extract"
    /\ LET url == kwargs[t].url
           vid == kwargs[t].media_id
       IN  IF Unsupported(url)
           THEN /\ run' = Raise(t, MsgInvalidUrl)
                /\ files' = files
           ELSE \E o \in ExtractOutcomes :
                  IF o = "ok"
                  THEN /\ files' = [files EXCEPT ![[id |-> vid, kind |-> "audio"]] = {t}]
                       /\ run' = [run EXCEPT ![t].pc = "identify",
                                    ![t].audio_path = [id |-> vid, kind |-> "audio"]]
                  ELSE /\ files' = IF o = "download_partial"
                                   THEN [files EXCEPT ![[id |-> vid, kind |-> "raw"]] = {t}]
                                   ELSE files
                       /\ run' = Raise(t, ExtractMessage(o))
    /\ UNCHANGED <<items, tasks, kwargs, queue, req, runs>>

\* shazam.py:82-83: the failure the recognition call raises on HTTP 401/403
ShazamErrors == {MsgAuthError}

NoMatchRecord_failed(ts) ==
    [ts EXCEPT !.status = Failed, !.error_code = CodeNoSongFound,
               !.error_message = MsgNoSong]

\* tasks.py:48-52: the fields set on the task's row when no song is identified
NoMatchRecord(ts) ==
    [ts EXCEPT !.status = Completed, !.error_code = CodeNoSongFound,
               !.error_message = MsgNoSong]

\* tasks.py:45-53 with shazam.py:19-122
Identify(t) ==
    /\ run[t].pc = "identify"
    /\ IF files[run[t].audio_path] = NoFile
       THEN /\ run' = [run EXCEPT ![t].exc = MsgAudioNotFound, ![t].pc = "finally"]
            /\ tasks' = tasks
       ELSE \/ \E track \in Tracks :
                 /\ run' = [run EXCEPT ![t].track = track, ![t].pc = "upsert"]
                 /\ tasks' = tasks
            \/ LET ts == NoMatchRecord(run[t].ts)
               IN  /\ tasks' = [tasks EXCEPT ![t] = ts]
                   /\ run' = [run EXCEPT ![t].ts = ts, ![t].pc = "finally"]
            \/ \E e \in ShazamErrors :
                 /\ run' = [run EXCEPT ![t].exc = e, ![t].pc = "finally"]
                 /\ tasks' = tasks
    /\ UNCHANGED <<items, kwargs, queue, files, req, runs>>

UpdateOrCreate_skipped(row, track) == row

UpdateOrCreate_reset(row, track) ==
    [song_title |-> track.title, artist_name |-> track.subtitle, search_count |-> 1]

UpdateOrCreate_swapped(row, track) ==
    [song_title |-> track.subtitle, artist_name |-> track.title,
     search_count |-> IF row = NoItem THEN 1 ELSE row.search_count]

\* tasks.py:88-101: SongSearch.objects.update_or_create(ig_media_id=media_id, ...)
UpdateOrCreate(row, track) ==
    [song_title |-> track.title, artist_name |-> track.subtitle,
     search_count |-> IF row = NoItem THEN 1 ELSE row.search_count]

Upsert(t) ==
    /\ run[t].pc = "upsert"
    /\ items' = [items EXCEPT ![kwargs[t].media_id] = UpdateOrCreate(@, run[t].track)]
    /\ run' = [run EXCEPT ![t].pc = "complete"]
    /\ UNCHANGED <<tasks, kwargs, queue, files, req, runs>>

\* tasks.py:103-106
Complete(t) ==
    /\ run[t].pc = "complete"
    /\ LET ts == [run[t].ts EXCEPT !.status = Completed,
                                  !.song_search = kwargs[t].media_id]
       IN  /\ tasks' = [tasks EXCEPT ![t] = ts]
           /\ run' = [run EXCEPT ![t].ts = ts, ![t].pc = "finally"]
    /\ UNCHANGED <<items, kwargs, queue, files, req, runs>>

\* tasks.py:116-122: the finally block removes audio_path (os.remove is taken
\* to succeed)
Finally(t) ==
    /\ run[t].pc = "finally"
    /\ files' = [files EXCEPT ![run[t].audio_path] = NoFile]
    /\ run' = [run EXCEPT ![t] =
                 IF run[t].exc = NoText THEN IdleRun ELSE [@ EXCEPT !.pc = "except"]]
    /\ UNCHANGED <<items, tasks, kwargs, queue, req, runs>>

CanRetry_always(retries) == TRUE

\* celery Task.retry: a new message unless request.retries has reached max_retries
CanRetry(retries) == retries < max_retries

\* tasks.py:124-156: classify the exception, write Failed, then retry or return
Except(t) ==
    /\ run[t].pc = "except"
    /\ LET p == ParseError(run[t].exc)
       IN  /\ tasks' = IF tasks[t] = NoTask
                       THEN tasks
                       ELSE [tasks EXCEPT ![t].status = Failed,
                                          ![t].error_code = p.error_code,
                                          ![t].error_message = p.error_message]
           /\ queue' = IF ShouldRetry(p.error_code) /\ CanRetry(run[t].retries)
                       THEN queue \cup {[task_id |-> t, retries |-> run[t].retries + 1]}
                       ELSE queue
    /\ run' = [run EXCEPT ![t] = IdleRun]
    /\ UNCHANGED <<items, kwargs, files, req, runs>>

\* ------------------------------------------------------ TaskStatusView.get
TaskStatusResponse_generic_failure(row) ==
    IF row = NoTask
    THEN [success |-> FALSE, status |-> None, error_code |-> CodeTaskNotFound,
          message |-> NoText, data |-> None]
    ELSE IF row.status = Completed
    THEN IF row.song_search # None
         THEN [success |-> TRUE, status |-> Completed, error_code |-> NoText,
               message |-> NoText, data |-> row.song_search]
         ELSE [success |-> TRUE, status |-> Completed, error_code |-> CodeNoSongFound,
               message |-> MsgNoSongContent, data |-> None]
    ELSE IF row.status = Failed
    THEN [success |-> FALSE, status |-> Failed, error_code |-> CodeUnknownError,
          message |-> MsgAnErrorOccurred, data |-> None]
    ELSE [success |-> TRUE, status |-> row.status, error_code |-> NoText,
          message |-> NoText, data |-> None]

\* views.py:107-135: the response built from the stored Task Record
TaskStatusResponse(row) ==
    IF row = NoTask
    THEN [success |-> FALSE, status |-> None, error_code |-> CodeTaskNotFound,
          message |-> NoText, data |-> None]
    ELSE IF row.status = Completed
    THEN IF row.song_search # None
         THEN [success |-> TRUE, status |-> Completed, error_code |-> NoText,
               message |-> NoText, data |-> row.song_search]
         ELSE [success |-> TRUE, status |-> Completed, error_code |-> CodeNoSongFound,
               message |-> MsgNoSongContent, data |-> None]
    ELSE IF row.status = Failed
    THEN [success |-> FALSE, status |-> Failed,
          error_code |-> IF row.error_code # NoText THEN row.error_code
                         ELSE CodeUnknownError,
          message |-> IF row.error_message # NoText THEN row.error_message
                      ELSE MsgAnErrorOccurred,
          data |-> None]
    ELSE [success |-> TRUE, status |-> row.status, error_code |-> NoText,
          message |-> NoText, data |-> None]

\* views.py:107-135: a client polls task t and is sent
\* TaskStatusResponse(tasks[t]); nothing is written
Poll(t) ==
    /\ tasks[t] # NoTask
    /\ UNCHANGED vars

Next ==
    \/ \E url \in Urls : PostLookup(url)
    \/ \E r \in BagToSet(req) : PostIncrement(r)
    \/ \E r \in BagToSet(req) : PostCreate(r)
    \/ \E t \in TaskIds : Start(t)
    \/ \E t \in TaskIds : Extract(t)
    \/ \E t \in TaskIds : Identify(t)
    \/ \E t \in TaskIds : Upsert(t)
    \/ \E t \in TaskIds : Complete(t)
    \/ \E t \in TaskIds : Finally(t)
    \/ \E t \in TaskIds : Except(t)
    \/ \E t \in TaskIds : Poll(t)

Spec == Init /\ [][Next]_vars

\* ------------------------------------------------------------------ claims
\* C1: once a Task Record's status is Completed or Failed it is never written
\* again: no step takes the status of a task out of a terminal state.
C1_TerminalStable ==
    [][\A t \in TaskIds :
         tasks[t].status \in {Completed, Failed}
            => tasks'[t].status = tasks[t].status]_vars

\* C2: a submission whose cache lookup found an Item Record finishes without
\* creating a Task Record and without queueing a pipeline run: the step that
\* ends it leaves the Task Records, the task arguments and the queue as they
\* were.
C2_CacheHitNoTask ==
    [][\A r \in BagToSet(req) :
         (r.cached # NoItem /\ req' = req (-) SetToBag({r}))
            => (tasks' = tasks /\ queue' = queue /\ kwargs' = kwargs)]_vars

\* a cache-hit submission has been served (search_count is 1 on creation and
\* only a cache hit raises it)
C2_Witness ==
    \E m \in MediaIds : items[m] # NoItem /\ items[m].search_count > 1

\* C3: at most one Task Record is ever created for one canonical item ID.
C3_OneTaskPerItem ==
    \A t1, t2 \in TaskIds :
        (/\ tasks[t1] # NoTask
         /\ tasks[t2] # NoTask
         /\ kwargs[t1].media_id = kwargs[t2].media_id) => t1 = t2

\* C4: every cache-hit submission raises the stored search_count by exactly 1:
\* the step that ends a cache-hit submission leaves the row's search_count one
\* above what the row held before it.
C4_IncrementByOne ==
    [][\A r \in BagToSet(req) :
         (r.pc = "increment" /\ req' = req (-) SetToBag({r}))
            => items'[r.media_id].search_count
                 = items[r.media_id].search_count + 1]_vars

\* C5: a task that fails with a retryable kind (here DownloadError or
\* ProcessingError) is Failed only once 3 pipeline runs have started for it,
\* and no more than 3 runs ever start for a task.
C5_RetryCeiling ==
    \A t \in TaskIds :
        /\ runs[t] <= max_retries
        /\ (/\ tasks[t] # NoTask
            /\ tasks[t].status = Failed
            /\ tasks[t].error_code \in {CodeProcessingError, CodeDownloadError})
              => runs[t] = max_retries

\* C6: when a run fails with InvalidURL, ContentNotFound or PrivateAccount the
\* handler leaves the Task Record Failed with that kind and queues nothing, and
\* in every state reached a Task Record holding one of these kinds is Failed
\* with no run of it executing or queued, whatever its attempt count.
C6_NonRetryableShortCircuit ==
    [][LET kinds == {<<MsgInvalidUrl, CodeInvalidUrl>>,
                     <<MsgContentNotFound, CodeContentNotFound>>,
                     <<MsgPrivateAccount, CodePrivateAccount>>}
       IN  \A t \in TaskIds :
             /\ \A k \in kinds :
                  (run[t].pc = "except" /\ run[t].exc = k[1] /\ run'[t].pc # "except")
                    => (/\ tasks'[t].status = Failed
                        /\ tasks'[t].error_code = k[2]
                        /\ queue' = queue)
             /\ (tasks'[t] # NoTask /\ tasks'[t].error_code \in {k[2] : k \in kinds})
                  => (/\ tasks'[t].status = Failed
                      /\ run'[t].pc = "idle"
                      /\ \A msg \in queue' : msg.task_id # t)]_vars

\* a task failed with ContentNotFound on its second pipeline run and is at rest
C6_Witness ==
    \E t \in TaskIds :
        /\ tasks[t] # NoTask
        /\ tasks[t].status = Failed
        /\ tasks[t].error_code = CodeContentNotFound
        /\ runs[t] = 2
        /\ run[t].pc = "idle"

\* C7: a Task Record holding the AuthError kind is Failed and no run of it is
\* executing or queued.
C7_AuthErrorNotRetried ==
    \A t \in TaskIds :
        (tasks[t] # NoTask /\ tasks[t].error_code = CodeAuthError)
           => (/\ tasks[t].status = Failed
               /\ run[t].pc = "idle"
               /\ \A msg \in queue : msg.task_id # t)

\* C8: when a pipeline run has ended with its Task Record Completed or Failed
\* (re-queued or not), no file written by that task's runs is left in the temp
\* directory.
C8_CleanupInvariant ==
    \A t \in TaskIds :
        (/\ tasks[t] # NoTask
         /\ run[t].pc = "idle"
         /\ tasks[t].status \in {Completed, Failed})
           => \A p \in Paths : t \notin files[p]

\* C9: a poll is answered from the stored row in whatever state it arrives, so
\* the polls of a Failed task keep returning the same response exactly when no
\* step changes the response of a task whose response is Failed.
C9_FailedPollStable ==
    [][\A t \in TaskIds :
         TaskStatusResponse(tasks[t]).status = Failed
            => TaskStatusResponse(tasks'[t]) = TaskStatusResponse(tasks[t])]_vars

\* C10: song_search is set only when Completed; the error fields are non-empty
\* only when Failed or Completed without a match; never both a song_search
\* reference and an error code.
C10_FieldInvariant ==
    \A t \in TaskIds :
        tasks[t] # NoTask =>
            /\ tasks[t].song_search # None => tasks[t].status = Completed
            /\ (tasks[t].error_code # NoText \/ tasks[t].error_message # NoText)
                 => \/ tasks[t].status = Failed
                    \/ tasks[t].status = Completed /\ tasks[t].song_search = None
            /\ ~(tasks[t].song_search # None /\ tasks[t].error_code # NoText)

\* C11: the step in which recognition returns no match leaves the Task Record
\* Completed with NoSongFound and no song_search reference, writes no Item
\* Record and queues nothing; the rest of that run (its cleanup) writes no
\* record either and ends with no message for the task in the queue.
C11_NoMatchFinalizes ==
    [][\A t \in TaskIds :
         /\ (run[t].pc = "identify" /\ run'[t].pc = "finally" /\ run'[t].exc = NoText)
              => (/\ tasks'[t].status = Completed
                  /\ tasks'[t].error_code = CodeNoSongFound
                  /\ tasks'[t].song_search = None
                  /\ items' = items
                  /\ queue' = queue)
         /\ (/\ run[t].pc = "finally"
             /\ run[t].exc = NoText
             /\ run[t].track = NoTrack
             /\ run'[t].pc # "finally")
              => (/\ run'[t].pc = "idle"
                  /\ items' = items
                  /\ tasks' = tasks
                  /\ tasks[t].status = Completed
                  /\ tasks[t].error_code = CodeNoSongFound
                  /\ tasks[t].song_search = None
                  /\ \A msg \in queue' : msg.task_id # t)]_vars

\* a run that found no song has ended: its task is Completed with NoSongFound
\* and at rest, and its item ID has no Item Record
C11_Witness ==
    \E t \in TaskIds :
        /\ tasks[t] # NoTask
        /\ tasks[t].status = Completed
        /\ tasks[t].error_code = CodeNoSongFound
        /\ tasks[t].song_search = None
        /\ run[t].pc = "idle"
        /\ items[kwargs[t].media_id] = NoItem

C13_UnsupportedRejectedAtSubmission ==
    \A t \in TaskIds :
        tasks[t] # NoTask
           => (/\ ~Unsupported(kwargs[t].url)
               /\ tasks[t].error_code # CodeInvalidUrl)

\* C14: Item Records are keyed by item ID, so runs for the same item ID write
\* one record: the upsert step of any run sets search_count to 1 when the item
\* ID had no Item Record and leaves it as it was when it had one, touches no
\* other Item Record, and all Completed tasks of one item ID that carry a
\* reference refer to the same Item Record.
C14_UpsertKeepsCount ==
    [][\A t \in TaskIds :
         LET m == kwargs[t].media_id
         IN  /\ (run[t].pc = "upsert" /\ run'[t].pc = "complete")
                  => (/\ items'[m].search_count
                           = IF items[m] = NoItem THEN 1 ELSE items[m].search_count
                      /\ \A o \in MediaIds \ {m} : items'[o] = items[o])
             /\ \A u \in TaskIds :
                  (/\ kwargs'[u].media_id = kwargs'[t].media_id
                   /\ tasks'[t].status = Completed /\ tasks'[t].song_search # None
                   /\ tasks'[u].status = Completed /\ tasks'[u].song_search # None)
                     => (/\ tasks'[u].song_search = tasks'[t].song_search
                         /\ items'[tasks'[t].song_search] # NoItem)]_vars

\* two tasks raced on the same item ID, both runs matched and upserted, and a
\* cache hit has raised the count of the one Item Record they share
C14_Witness ==
    \E t1, t2 \in TaskIds :
        /\ t1 # t2
        /\ kwargs[t1].media_id = kwargs[t2].media_id
        /\ tasks[t1].status = Completed /\ tasks[t1].song_search # None
        /\ tasks[t2].status = Completed /\ tasks[t2].song_search # None
        /\ items[kwargs[t1].media_id].search_count = 2

\* C15: in every reachable state the poll response of every task ID is the one
\* the stored Task Record determines: not-found with TASK_NOT_FOUND for an ID
\* without a record; the status alone for Pending and Processing (even when the
\* record holds an error from an earlier run); the referenced, existing Item
\* Record for Completed with a reference; NO_SONG_FOUND for Completed without
\* one; and success=false with the stored error_code and error_message for
\* Failed.
C15_PollIsFunctionOfRecord ==
    \A t \in TaskIds :
        LET row == tasks[t]
            resp == TaskStatusResponse(row)
        IN  /\ row = NoTask
                 => (~resp.success /\ resp.error_code = CodeTaskNotFound)
            /\ (row # NoTask /\ row.status \in {Pending, Processing})
                 => resp = [success |-> TRUE, status |-> row.status,
                            error_code |-> NoText, message |-> NoText,
                            data |-> None]
            /\ (row # NoTask /\ row.status = Completed /\ row.song_search # None)
                 => (/\ resp.success
                     /\ resp.status = Completed
                     /\ resp.data = row.song_search
                     /\ items[resp.data] # NoItem)
            /\ (row # NoTask /\ row.status = Completed /\ row.song_search = None)
                 => (/\ resp.status = Completed
                     /\ resp.error_code = CodeNoSongFound
                     /\ resp.data = None)
            /\ (row # NoTask /\ row.status = Failed)
                 => (/\ ~resp.success
                     /\ resp.status = Failed
                     /\ resp.error_code = row.error_code
                     /\ resp.message = row.error_message)

\* one task is Failed with a stored error pair while another is Processing in
\* a retry run, its record still holding the error of the failed run
C15_Witness ==
    \E t, u \in TaskIds :
        /\ tasks[t] # NoTask /\ tasks[t].status = Failed
        /\ tasks[t].error_code # NoText /\ tasks[t].error_message # NoText
        /\ tasks[u] # NoTask /\ tasks[u].status = Processing
        /\ tasks[u].error_code # NoText

\* C16: Failed is written only on give-up: a Task Record is never Failed while
\* a retry of the task is queued or executing.
C16_ProcessingWhileRetrying ==
    \A t \in TaskIds :
        (tasks[t] # NoTask /\ tasks[t].status = Failed)
           => (/\ run[t].pc = "idle"
               /\ \A msg \in queue : msg.task_id # t)

\* C17: the artifact a run is about to send to recognition is the file that
\* run wrote: it is still at the run's path and no other run has written or
\* removed it.
C17_ArtifactOwnedByRun ==
    \A t \in TaskIds :
        run[t].pc = "identify" => files[run[t].audio_path] = {t}

\* C18: an Item Record, once created, stays, its search_count is at least 1,
\* and no step lowers it.
C18_CountMonotone ==
    [][\A m \in MediaIds :
         items[m] # NoItem
            => (/\ items'[m] # NoItem
                /\ items[m].search_count >= 1
                /\ items'[m].search_count >= items[m].search_count)]_vars

\* ------------------------------------------------ extraction, step by step
\* The second specification runs the pipeline with the metadata loop of
\* extract_audio_from_instagram unrolled: one step per attempt, then the
\* download.  Extract above is the same call taken as one step.

\* instagram.py:76-132: what one attempt of ydl.extract_info can do: return the
\* metadata ("info"), return nothing ("no_info"), fail with 404 / not exist
\* ("not_found"), fail with private / login required / rate ("blocked"), fail
\* with another DownloadError ("download_error"), fail with any other
\* exception ("unexpected")
InfoOutcomes ==
    {"info", "no_info", "not_found", "blocked", "download_error", "unexpected"}

MoreAttempts_never(attempt) == FALSE

\* instagram.py:100,110: if attempt < MAX_RETRIES: ... continue
MoreAttempts(attempt) == attempt < MAX_RETRIES

\* instagram.py:32-43 (before the loop) and 76-132 (one iteration)
ExtractInfo(t) ==
    /\ run[t].pc = "extract"
    /\ IF Unsupported(kwargs[t].url)
       THEN run' = Raise(t, MsgInvalidUrl)
       ELSE \E o \in InfoOutcomes :
              CASE o = "info" -> run' = [run EXCEPT ![t].pc = "download"]
                [] o = "no_info" -> run' = Raise(t, MsgExtractFailed)
                [] o = "not_found" -> run' = Raise(t, MsgContentNotFound)
                [] o = "blocked" ->
                     run' = IF MoreAttempts(run[t].attempt)
                            THEN [run EXCEPT ![t].attempt = @ + 1]
                            ELSE Raise(t, MsgPrivateAccount)
                [] o = "download_error" ->
                     run' = IF MoreAttempts(run[t].attempt)
                            THEN [run EXCEPT ![t].attempt = @ + 1]
                            ELSE Raise(t, MsgDownloadError)
                [] o = "unexpected" ->
                     run' = IF MoreAttempts(run[t].attempt)
                            THEN [run EXCEPT ![t].attempt = @ + 1]
                            ELSE Raise(t, MsgUnexpected)
    /\ UNCHANGED <<items, tasks, kwargs, queue, files, req, runs>>

\* instagram.py:134-183: the download and trim: the clip ("ok"), no file found
\* ("none"), a failed download ("download_error"), or one that fails in
\* post-processing and leaves the downloaded media ("download_partial")
DownloadOutcomes == {"ok", "none", "download_error", "download_partial"}

Download(t) ==
    /\ run[t].pc = "download"
    /\ LET vid == kwargs[t].media_id
       IN  \E o \in DownloadOutcomes :
             IF o = "ok"
             THEN /\ files' = [files EXCEPT ![[id |-> vid, kind |-> "audio"]] = {t}]
                  /\ run' = [run EXCEPT ![t].pc = "identify",
                               ![t].audio_path = [id |-> vid, kind |-> "audio"]]
             ELSE /\ files' = IF o = "download_partial"
                              THEN [files EXCEPT ![[id |-> vid, kind |-> "raw"]] = {t}]
                              ELSE files
                  /\ run' = Raise(t, ExtractMessage(o))
    /\ UNCHANGED <<items, tasks, kwargs, queue, req, runs>>

\* views.py:75-97 while fewer than LiveTasks Task Records exist
LivePostCreate(r) == PostCreate(r) /\ FreshTaskId <= LiveTasks

\* a step of the pipeline of some task
WorkerStep ==
    \E t \in TaskIds :
        \/ Start(t)
        \/ ExtractInfo(t)
        \/ Download(t)
        \/ Identify(t)
        \/ Upsert(t)
        \/ Complete(t)
        \/ Finally(t)
        \/ Except(t)

LiveNext ==
    \/ \E url \in Urls : PostLookup(url)
    \/ \E r \in BagToSet(req) : PostIncrement(r)
    \/ \E r \in BagToSet(req) : LivePostCreate(r)
    \/ \E t \in TaskIds : Start(t)
    \/ \E t \in TaskIds : ExtractInfo(t)
    \/ \E t \in TaskIds : Download(t)
    \/ \E t \in TaskIds : Identify(t)
    \/ \E t \in TaskIds : Upsert(t)
    \/ \E t \in TaskIds : Complete(t)
    \/ \E t \in TaskIds : Finally(t)
    \/ \E t \in TaskIds : Except(t)
    \/ \E t \in TaskIds : Poll(t)

\* Celery delivers queued messages to free workers and a worker executes the
\* run it started, each collaborator call returning or raising: while some
\* pipeline step can be taken, one eventually is.  Submissions and polls are
\* under no obligation.
LiveSpec == Init /\ [][LiveNext]_vars /\ WF_vars(WorkerStep)

\* C19: no task starts more than max_retries + 1 pipeline runs and no run makes
\* more than MAX_RETRIES extraction attempts; and from some point on and for
\* ever, every Task Record that was created is Completed or Failed with no run
\* of it executing and no message for it in the queue.
C19_EventuallySettled ==
    /\ [](\A t \in TaskIds :
            runs[t] <= max_retries + 1 /\ run[t].attempt <= MAX_RETRIES)
    /\ <>[](\A t \in TaskIds :
              tasks[t] # NoTask
                 => (/\ tasks[t].status \in {Completed, Failed}
                     /\ run[t].pc = "idle"
                     /\ \A msg \in queue : msg.task_id # t))

\* a task has used all its max_retries + 1 pipeline runs, the last one failing
\* with a download error, and is at rest with nothing queued for it
C19_Witness ==
    \E t \in TaskIds :
        /\ tasks[t] # NoTask
        /\ runs[t] = max_retries + 1
        /\ tasks[t].status = Failed
        /\ tasks[t].error_code = CodeDownloadError
        /\ run[t].pc = "idle"
        /\ \A msg \in queue : msg.task_id # t

\* C20: a Task Record is created Pending and its status changes only from
\* Pending to Processing and from Processing to Completed or Failed; while it
\* is Pending it holds no error and no song_search reference.
C20_StatusOrder ==
    [][\A t \in TaskIds :
         /\ (tasks[t] = NoTask /\ tasks'[t] # NoTask)
              => tasks'[t].status = Pending
         /\ (tasks[t] # NoTask /\ tasks'[t].status # tasks[t].status)
              => \/ tasks[t].status = Pending /\ tasks'[t].status = Processing
                 \/ /\ tasks[t].status = Processing
                    /\ tasks'[t].status \in {Completed, Failed}
         /\ (tasks'[t] # NoTask /\ tasks'[t].status = Pending)
              => (/\ tasks'[t].song_search = None
                  /\ tasks'[t].error_code = NoText
                  /\ tasks'[t].error_message = NoText)]_vars

\* C21: the metadata fetch of one extraction call is attempted at most
\* MAX_RETRIES times; the call raises PRIVATE_ACCOUNT or DOWNLOAD_ERROR out of
\* the fetch loop only on the attempt numbered MAX_RETRIES, a failed earlier
\* attempt being followed by the next one; and it raises CONTENT_NOT_FOUND on
\* the attempt where the not-exist signal occurs, making no further attempt.
C21_ExtractionAttempts ==
    [][\A t \in TaskIds :
         /\ run'[t].attempt <= MAX_RETRIES
         /\ (/\ run[t].pc = "extract"
             /\ run'[t].pc = "except"
             /\ run'[t].exc \in {MsgPrivateAccount, MsgDownloadError})
              => run[t].attempt = MAX_RETRIES
         /\ (run[t].pc = "extract" /\ run'[t].pc = "extract" /\ run'[t] # run[t])
              => (/\ run[t].attempt < MAX_RETRIES
                  /\ run'[t].attempt = run[t].attempt + 1)
         /\ (/\ run[t].pc = "extract"
             /\ run'[t].pc = "except"
             /\ run'[t].exc = MsgContentNotFound)
              => run'[t].attempt = run[t].attempt]_vars

\* the extraction call has just raised PRIVATE_ACCOUNT after its last attempt
C21_Witness ==
    \E t \in TaskIds :
        /\ run[t].pc = "except"
        /\ run[t].exc = MsgPrivateAccount
        /\ run[t].attempt = MAX_RETRIES

\* ------------------------------------------- deletion of a Task Record
\* admin.py:14-19: TaskStatus is registered with the Django admin, whose
\* delete action removes a row at any time
AdminDelete(t) ==
    /\ tasks[t] # NoTask
    /\ tasks' = [tasks EXCEPT ![t] = NoTask]
    /\ UNCHANGED <<items, kwargs, queue, run, files, req, runs>>

\* views.py:75-97: uuid4 never hands out the id of a deleted Task Record again
AdminPostCreate(r) == LivePostCreate(r) /\ kwargs[FreshTaskId] = NoArgs

AdminNext ==
    \/ \E url \in Urls : PostLookup(url)
    \/ \E r \in BagToSet(req) : PostIncrement(r)
    \/ \E r \in BagToSet(req) : AdminPostCreate(r)
    \/ \E t \in TaskIds : Start(t)
    \/ \E t \in TaskIds : Extract(t)
    \/ \E t \in TaskIds : Identify(t)
    \/ \E t \in TaskIds : Upsert(t)
    \/ \E t \in TaskIds : Complete(t)
    \/ \E t \in TaskIds : Finally(t)
    \/ \E t \in TaskIds : Except(t)
    \/ \E t \in TaskIds : Poll(t)
    \/ \E t \in TaskIds : AdminDelete(t)

AdminSpec == Init /\ [][AdminNext]_vars

\* C22: once the Task Record of a submitted task is gone, no step of the
\* pipeline brings a record for that task ID back, and no run ever fails with
\* the exception of the missing record (so none is re-queued because of it).
C22_MissingRecordNoOp ==
    [][\A t \in TaskIds :
         /\ (kwargs[t] # NoArgs /\ tasks[t] = NoTask) => tasks'[t] = NoTask
         /\ run'[t].exc # MsgDoesNotExist]_vars

\* C23: for every task ID at most one delivery exists at a time: at most one
\* message for it is in the queue, and while one is, no run of it is executing
\* (so a worker never takes a message of a task that is still running); and
\* when the message is a retry, the failed run's writes are already in the
\* Task Record (it is Failed with its error code).
C23_OneRunPerTask ==
    \A t \in TaskIds :
        LET msgs == {msg \in queue : msg.task_id = t}
        IN  /\ Cardinality(msgs) <= 1
            /\ msgs # {} => run[t].pc = "idle"
            /\ \A msg \in msgs :
                 msg.retries > 0
                    => (/\ tasks[t].status = Failed
                        /\ tasks[t].error_code # NoText)

\* the last retry of a task is queued while the run of another task executes
C23_Witness ==
    \E t, u \in TaskIds :
        /\ [task_id |-> t, retries |-> max_retries] \in queue
        /\ run[t].pc = "idle"
        /\ run[u].pc # "idle"

\* C24: every error_code stored on a Task Record is empty or the code of one of
\* the nine kinds of the taxonomy: INVALID_URL, CONTENT_NOT_FOUND,
\* PRIVATE_ACCOUNT, RATE_LIMIT, NETWORK_ERROR, AUTH_ERROR, DOWNLOAD_ERROR,
\* NO_SONG_FOUND, PROCESSING_ERROR.
C24_ErrorTaxonomy ==
    LET taxonomy == {CodeInvalidUrl, CodeContentNotFound, CodePrivateAccount,
                     ParseError(MsgRateLimit).error_code,
                     ParseError(MsgNetworkError).error_code,
                     CodeAuthError, CodeDownloadError, CodeNoSongFound,
                     CodeProcessingError}
    IN  \A t \in TaskIds :
          tasks[t] # NoTask => tasks[t].error_code \in taxonomy \cup {NoText}

\* C25: when the handler ends a run whose exception text has no code prefix
\* (no colon at all, or a colon after a word that is not a code), the Task
\* Record is left Failed with PROCESSING_ERROR and the whole text as message,
\* and the task is re-queued exactly when fewer than max_retries retries have
\* been made; on give-up nothing is queued for it.
C25_UnclassifiedIsProcessingError ==
    [][\A t \in TaskIds : \A e \in {MsgExtractFailed, MsgUnexpected} :
         (run[t].pc = "except" /\ run[t].exc = e /\ run'[t].pc = "idle")
            => (/\ tasks'[t].status = Failed
                /\ tasks'[t].error_code = CodeProcessingError
                /\ tasks'[t].error_message = e
                /\ IF run[t].retries < max_retries
                   THEN queue' = queue \cup {[task_id |-> t,
                                              retries |-> run[t].retries + 1]}
                   ELSE queue' = queue /\ \A msg \in queue' : msg.task_id # t)]_vars

\* a task has given up after its last retry failed with the unprefixed text
\* of an unexpected exception
C25_Witness ==
    \E t \in TaskIds :
        /\ tasks[t] # NoTask
        /\ tasks[t].status = Failed
        /\ tasks[t].error_code = CodeProcessingError
        /\ tasks[t].error_message = MsgUnexpected
        /\ runs[t] = max_retries + 1
        /\ run[t].pc = "idle"
        /\ \A msg \in queue : msg.task_id # t

\* -------------------------------------------------------------- StatsView
\* views.py:151  [:10]
TrendingLimit == 10

\* shazam.py:95-104 with tasks.py:92-93: a match that carries no 'title' key;
\* track.get('title', '') stores the empty string
UntitledTrack == [title |-> "", subtitle |-> "Artist Y"]

\* tasks.py:45-56: recognition returns a match without a title
IdentifyUntitled(t) ==
    /\ run[t].pc = "identify"
    /\ files[run[t].audio_path] # NoFile
    /\ run' = [run EXCEPT ![t].track = UntitledTrack, ![t].pc = "upsert"]
    /\ UNCHANGED <<items, tasks, kwargs, queue, files, req, runs>>

\* SongSearch.objects: the item IDs that have an Item Record
Records == {m \in MediaIds : items[m] # NoItem}

\* views.py:147-151: .filter(song_title__isnull=False).exclude(song_title='')
Titled == {m \in Records : items[m].song_title # None /\ items[m].song_title # ""}

\* views.py:151: .order_by('-search_count') as a sequence of item IDs
RECURSIVE OrderByCountDesc(_)
OrderByCountDesc(S) ==
    IF S = {} THEN <<>>
    ELSE LET top == CHOOSE m \in S :
                      \A o \in S : items[o].search_count <= items[m].search_count
         IN  <<top>> \o OrderByCountDesc(S \ {top})

\* views.py:154-156: aggregate(total=Sum('search_count'))
RECURSIVE SumCounts(_)
SumCounts(S) ==
    IF S = {} THEN 0
    ELSE LET m == CHOOSE o \in S : TRUE
         IN  items[m].search_count + SumCounts(S \ {m})

\* views.py:145-164: the response of StatsView.get
StatsResponse ==
    LET ordered == OrderByCountDesc(Titled)
    IN  [trending_songs |->
            SubSeq(ordered, 1, IF Len(ordered) < TrendingLimit
                               THEN Len(ordered) ELSE TrendingLimit),
         total_searches |-> SumCounts(Records),
         unique_songs |-> Cardinality({m \in Records : items[m].song_title # ""})]

\* views.py:145-164: a client reads the statistics; nothing is written
StatsGet == UNCHANGED vars

StatsNext ==
    \/ \E url \in Urls : PostLookup(url)
    \/ \E r \in BagToSet(req) : PostIncrement(r)
    \/ \E r \in BagToSet(req) : LivePostCreate(r)
    \/ \E t \in TaskIds : Start(t)
    \/ \E t \in TaskIds : Extract(t)
    \/ \E t \in TaskIds : Identify(t)
    \/ \E t \in TaskIds : IdentifyUntitled(t)
    \/ \E t \in TaskIds : Upsert(t)
    \/ \E t \in TaskIds : Complete(t)
    \/ \E t \in TaskIds : Finally(t)
    \/ \E t \in TaskIds : Except(t)
    \/ StatsGet

StatsSpec == Init /\ [][StatsNext]_vars

\* C26: the trending list holds the records with a non-empty title, ordered by
\* search_count descending and cut to the first TrendingLimit, and both
\* aggregates are taken over exactly the records with a non-empty title.
C26_StatsOverTitled ==
    LET titled == {m \in MediaIds :
                     items[m] # NoItem /\ items[m].song_title \notin {None, ""}}
        resp == StatsResponse
        trending == resp.trending_songs
    IN  /\ {trending[i] : i \in 1..Len(trending)} \subseteq titled
        /\ Len(trending)
             = IF Cardinality(titled) < TrendingLimit
               THEN Cardinality(titled) ELSE TrendingLimit
        /\ \A i, j \in 1..Len(trending) :
             i < j => items[trending[i]].search_count >= items[trending[j]].search_count
        /\ resp.total_searches = SumCounts(titled)
        /\ resp.unique_songs = Cardinality(titled)

\* C27: after every step, a Task Record that is Completed with a song_search
\* reference refers to the Item Record keyed by the item ID the task was
\* submitted with, and that record exists; and a submission whose lookup is
\* made while such a task exists for its item ID is a cache hit.
C27_CachePopulatedBeforeFinalized ==
    [][/\ \A t \in TaskIds :
            (/\ tasks'[t] # NoTask
             /\ tasks'[t].status = Completed
             /\ tasks'[t].song_search # None)
               => (/\ tasks'[t].song_search = kwargs'[t].media_id
                   /\ items'[kwargs'[t].media_id] # NoItem)
       /\ \A r \in BagToSet(req') :
            (/\ CopiesIn(r, req') > CopiesIn(r, req)
             /\ \E t \in TaskIds :
                  /\ tasks[t] # NoTask
                  /\ tasks[t].status = Completed
                  /\ tasks[t].song_search # None
                  /\ kwargs[t].media_id = r.media_id)
               => (r.pc = "increment" /\ r.cached # NoItem)]_vars

\* a submission made after its item's task completed with a match has found
\* the Item Record and is about to count the hit
C27_Witness ==
    \E r \in BagToSet(req) : \E t \in TaskIds :
        /\ r.pc = "increment"
        /\ tasks[t] # NoTask
        /\ tasks[t].status = Completed
        /\ tasks[t].song_search = r.media_id
        /\ kwargs[t].url = r.url
        /\ run[t].pc = "idle"

====
